---- MODULE Spec2Model ----
(***************************************************************************)
(* Model of addon/visionEnhancementProviders/nvdaHighlighterPlus.py:       *)
(* the registry contextToRectMap, the boolean flag LockMap that is meant   *)
(* to guard it, the render thread (_run, windowProc, _paint, main) and the *)
(* host's thread (constructor, handleFocusChange, handleReviewMove,        *)
(* handleBrowseModeMove, settings, refresh, terminate).                    *)
(*                                                                         *)
(* Python switches threads between bytecodes, so every access to a shared  *)
(* attribute (LockMap, contextToRectMap, the settings) is a step of its    *)
(* own; purely local work is folded into the step of the access before it. *)
(* A dictionary entry holding None and a missing entry are both None here: *)
(* the only reader, _paint, uses .get() and skips either.                  *)
(***************************************************************************)
EXTENDS Integers, FiniteSets, Sequences, TLC

\* ---------------------------------------------------------------- values

\* vision.constants.Context
FOCUS == "focus"
NAVIGATOR == "navigator"
BROWSEMODE == "browseMode"
FOCUS_NAVIGATOR == "focusNavigator"

\* _supportedContexts, in the order enabledContexts keeps
supportedContexts == <<FOCUS, NAVIGATOR, BROWSEMODE>>

SupportedSet == {FOCUS, NAVIGATOR, BROWSEMODE}
AllContexts == SupportedSet \cup {FOCUS_NAVIGATOR}

\* one display of 200 x 100 pixels with its origin at (0, 0)
OneDisplay == [x |-> 0, y |-> 0, w |-> 200, h |-> 100]

\* Python's None / a missing entry; a tuple, like the rectangles it is compared with
None == <<>>

\* How many distinct rectangles the host reports.
NumRects == 2

\* how many times the host calls terminate() to completion
MaxTerminates == 2

\* Rectangles (left, top, right, bottom); neighbours differ by one unit in
\* one coordinate.
Rects == {<<10 + i, 10, 60, 30>> : i \in 0..(NumRects - 1)}
RectOrNone == Rects \cup {None}

\* HighlightStyle constants
DASH_BLUE == [color |-> "BLUE", width |-> 5, style |-> "Dash", margin |-> 10]
SOLID_PINK == [color |-> "PINK", width |-> 5, style |-> "Solid", margin |-> 10]
SOLID_BLUE == [color |-> "BLUE", width |-> 5, style |-> "Solid", margin |-> 10]
SOLID_YELLOW == [color |-> "YELLOW", width |-> 2, style |-> "Solid", margin |-> 10]

ContextStyles(c) ==
  CASE c = FOCUS -> DASH_BLUE
    [] c = NAVIGATOR -> SOLID_PINK
    [] c = FOCUS_NAVIGATOR -> SOLID_BLUE
    [] c = BROWSEMODE -> SOLID_YELLOW

Threads == {"main", "render"}

\* the host object of a context is still moving or changing: getContextRect
\* may yield any rectangle, None, or an error
Moving == <<2>>

\* getContextRect raised LookupError, NotImplementedError, RuntimeError or
\* TypeError
Raised == <<1>>

\* History marker: the getContextRect of this call has not raised.
NoFailure == <<3>>

\* History marker: the entry held a rectangle when getContextRect raised.
HadRect == <<4>>

\* History marker: this paint has not read the context.
Unread == <<0>>

EmptyMap == [c \in SupportedSet |-> None]
NothingSeen == [c \in SupportedSet |-> Unread]
EmptyRects == [c \in AllContexts |-> None]

\* ----------------------------------------------------------------- state

VARIABLES
  contextToRectMap,  \* self.contextToRectMap
  LockMap,           \* self.LockMap: "unset" until Lock or UnLock assigns it
  settings,          \* the contexts whose highlightPlus<Context> setting is on
  pc,                \* the line each thread is about to execute
  uctx,              \* the context argument of the thread's updateContextRect
  thread,            \* self._highlighterPlusThread is not None
  displays,          \* the bounding box of all displays: [x, y, w, h]
  location,          \* HighlightWindow.location, (left, top, width, height)
  window,            \* self._window exists and its handle is live
  timer,             \* the WinTimer of _run is live
  runningEvent,      \* self._highlighterPlusRunningEvent is set
  gdiplus,           \* gdiPlusInitialize calls not yet matched by gdiPlusTerminate
  quitPosted,        \* WM_QUIT is in the render thread's queue
  invalid,           \* the window has an update region (WM_PAINT is due)
  paintEnabled,      \* history: the settings that were on when line 165 ran
  ptodo,             \* _paint: the contexts the loop of line 165 has yet to visit
  contextRects,      \* _paint: the local dict contextRects
  hdc,               \* _paint: inside "with winUser.paint / GDIPlusGraphicsContext"
  drawn,             \* _paint: the rectangles stroked so far in this paint
  marginFailed,      \* _paint: the contexts whose expandOrShrink raised (line 195)
  seen,              \* history: what this paint read from the registry, per context
  lastW,             \* history: the last value committed per context
  dirty,             \* history: a commit happened since this _paint was entered
  hostRect,          \* what getContextRect yields per context, once it is settled
  failOld            \* history: what the None of a failed getContextRect replaced

vars == <<contextToRectMap, LockMap, settings, pc, uctx, thread, displays,
          location, window, timer,
          runningEvent, gdiplus, quitPosted, invalid, paintEnabled, ptodo,
          contextRects, hdc, drawn, marginFailed, seen, lastW, dirty, hostRect,
          failOld>>

lifeVars == <<thread, displays, location, window, timer, runningEvent, gdiplus,
             quitPosted>>
paintVars == <<paintEnabled, ptodo, contextRects, hdc, drawn, marginFailed, seen,
              dirty>>

Init ==
  /\ contextToRectMap = EmptyMap
  /\ LockMap = "unset"
  /\ settings = SupportedSet
  /\ pc = [t \in Threads |-> IF t = "main" THEN "c446" ELSE "r468"]
  /\ uctx = [t \in Threads |-> ""]
  /\ thread = TRUE
  /\ displays = OneDisplay
  /\ location = None
  /\ window = FALSE
  /\ timer = FALSE
  /\ runningEvent = FALSE
  /\ gdiplus = 1
  /\ quitPosted = FALSE
  /\ invalid = FALSE
  /\ paintEnabled = {}
  /\ ptodo = <<>>
  /\ contextRects = EmptyRects
  /\ hdc = FALSE
  /\ drawn = {}
  /\ marginFailed = {}
  /\ seen = NothingSeen
  /\ lastW = EmptyMap
  /\ dirty = FALSE
  /\ hostRect = [c \in SupportedSet |-> Moving]
  /\ failOld = [t \in Threads |-> NoFailure]

\* -------------------------------------------------------------- helpers

Range(s) == {s[i] : i \in 1..Len(s)}

IsOn(c) == c \in settings

\* a getter that forgets the settings
enabledContexts_All == supportedContexts

\* _get_enabledContexts: the supported contexts whose setting is on, in order
enabledContexts == SelectSeq(supportedContexts, IsOn)

\* a check that lets every context through
IsEnabled_Always(c) == TRUE

\* "context not in self.enabledContexts" (line 521) is false
IsEnabled(c) == c \in Range(enabledContexts)

\* an assignment that keeps the rectangle an entry already holds
Store_FirstWins(map, c, r) == IF map[c] = None THEN [map EXCEPT ![c] = r] ELSE map

\* self.contextToRectMap[context] = rect (line 529)
Store(map, c, r) == [map EXCEPT ![c] = r]

\* a loop body without the merge of lines 169-176
PaintVisit_NoMerge(cr, context, rect) ==
  IF rect = None THEN cr ELSE [cr EXCEPT ![context] = rect]

\* a loop body that merges whenever Focus has a rectangle, equal or not
PaintVisit_MergeAny(cr, context, rect) ==
  IF rect = None
    THEN cr
    ELSE IF context = NAVIGATOR /\ cr[FOCUS] # None
      THEN [cr EXCEPT ![FOCUS] = None, ![NAVIGATOR] = None,
                      ![FOCUS_NAVIGATOR] = rect]
      ELSE [cr EXCEPT ![context] = rect]

\* the body of the loop of _paint (lines 167-177) for one context
PaintVisit(cr, context, rect) ==
  IF rect = None
    THEN cr
    ELSE IF context = NAVIGATOR /\ cr[FOCUS] = rect
      THEN [cr EXCEPT ![FOCUS] = None, ![NAVIGATOR] = None,
                      ![FOCUS_NAVIGATOR] = rect]
      ELSE [cr EXCEPT ![context] = rect]

\* a test that never finds the instructions empty
NoInstructions_Never(cr) == FALSE

\* "not contextRects" (line 178)
NoInstructions(cr) == \A c \in AllContexts : cr[c] = None

\* a window location that spans the whole bounding box
WindowLocation_FullHeight(d) == <<d.x, d.y, d.w, d.h>>

\* updateLocationForDisplays, line 100-109: the bounding box of the displays
\* less one line of pixels at the bottom, as RectLTWH
WindowLocation(d) == <<d.x, d.y, d.w, d.h - 1>>

Max(a, b) == IF a >= b THEN a ELSE b
Min(a, b) == IF a <= b THEN a ELSE b

\* line 187: rect.intersection(self.location) for rect = (left, top, right,
\* bottom) and loc = (left, top, width, height): the common part, or the zero
\* rectangle when there is none
Intersection(rect, loc) ==
  LET left == Max(rect[1], loc[1])
      top == Max(rect[2], loc[2])
      right == Min(rect[3], loc[1] + loc[3])
      bottom == Min(rect[4], loc[2] + loc[4])
  IN IF left > right \/ top > bottom
       THEN <<0, 0, 0, 0>>
       ELSE <<left, top, right, bottom>>

\* a rectangle without width or without height
Degenerate(rect) == rect[3] <= rect[1] \/ rect[4] <= rect[2]

\* line 193-196: rect.expandOrShrink(margin) may raise RuntimeError when the
\* transform is infeasible, which takes a degenerate rectangle
MarginOutcomes(rect) == IF Degenerate(rect) THEN BOOLEAN ELSE {FALSE}

\* line 193-196: the contexts of this paint whose margin transform raised
AfterMargin(failed, context, raised) ==
  IF raised THEN failed \cup {context} ELSE failed

\* contextRects.items() comes in insertion order: Focus, then Navigator or the
\* merged entry, then BrowseMode
DrawOrder == <<FOCUS, NAVIGATOR, FOCUS_NAVIGATOR, BROWSEMODE>>

DrawnContexts == {d.context : d \in drawn}

ToDraw == SelectSeq(DrawOrder,
                    LAMBDA c : contextRects[c] # None /\ c \notin DrawnContexts)

\* history: the contexts this paint has read
ReadSoFar == {c \in SupportedSet : seen[c] # Unread}

InPaint == pc["render"] \in {"p163", "p165", "p166", "p178", "p183", "p203"}

\* where updateContextRect(context) returns to, per caller
ReturnPc(t, c) ==
  IF t = "render"
    THEN IF c = NAVIGATOR THEN "u518" ELSE "r472"   \* handleUpdateThread 491, 493
    ELSE IF c = FOCUS THEN "h534" ELSE "idle"       \* handleFocusChange 533

ReturnCtx(t, c) ==
  IF t = "render" /\ c = NAVIGATOR THEN FOCUS ELSE ""

Return(t) ==
  /\ pc' = [pc EXCEPT ![t] = ReturnPc(t, uctx[t])]
  /\ uctx' = [uctx EXCEPT ![t] = ReturnCtx(t, uctx[t])]

\* ---------------------------------------------------- updateContextRect

\* line 518: if self.IsLocked(): return.  IsLocked reads an attribute that only
\* Lock and UnLock assign: before either ran it raises AttributeError, which
\* ends _run (line 484) on the render thread and goes to the host on its thread.
U518(t) ==
  /\ pc[t] = "u518"
  /\ IF LockMap = "unset"
       THEN /\ pc' = [pc EXCEPT ![t] = IF t = "render" THEN "dead" ELSE "idle"]
            /\ uctx' = [uctx EXCEPT ![t] = ""]
       ELSE IF LockMap = "True"
         THEN Return(t)
         ELSE /\ pc' = [pc EXCEPT ![t] = "u520"]
              /\ UNCHANGED uctx
  /\ UNCHANGED <<contextToRectMap, LockMap, settings, lifeVars, invalid,
                 paintVars, lastW, hostRect, failOld>>

\* line 520: self.Lock("update")
U520(t) ==
  /\ pc[t] = "u520"
  /\ LockMap' = "True"
  /\ pc' = [pc EXCEPT ![t] = "u521"]
  /\ UNCHANGED <<contextToRectMap, settings, uctx, lifeVars, invalid,
                 paintVars, lastW, hostRect, failOld>>

\* lines 521-523: a context that is not enabled: UnLock and return
U521(t) ==
  /\ pc[t] = "u521"
  /\ IF IsEnabled(uctx[t])
       THEN /\ pc' = [pc EXCEPT ![t] = "u526"]
            /\ UNCHANGED <<uctx, LockMap>>
       ELSE /\ LockMap' = "False"
            /\ Return(t)
  /\ UNCHANGED <<contextToRectMap, settings, lifeVars, invalid, paintVars,
                 lastW, hostRect, failOld>>

\* what getContextRect(context) can yield
HostAnswers(c) ==
  IF hostRect[c] = Moving THEN RectOrNone \cup {Raised} ELSE {hostRect[c]}

\* a handler that leaves the entry as it was when getContextRect raised
NewEntry_KeepOnFail(old, answer) == IF answer = Raised THEN old ELSE answer

\* lines 524-528: rect is what getContextRect returned, None if it raised one
\* of the four caught errors
NewEntry(old, answer) == IF answer = Raised THEN None ELSE answer

\* lines 524-529: getContextRect returns a rectangle or None, or raises one of
\* the four caught errors; rect is assigned to the entry.
\* The thread is inside getContextRect while it is at u526.
U526(t) ==
  /\ pc[t] = "u526"
  /\ \E answer \in HostAnswers(uctx[t]) :
       LET old == contextToRectMap[uctx[t]]
           rect == NewEntry(old, answer)
       IN /\ contextToRectMap' = Store(contextToRectMap, uctx[t], rect)
          /\ lastW' = [lastW EXCEPT ![uctx[t]] = rect]
          /\ failOld' = [failOld EXCEPT ![t] =
                           IF answer # Raised THEN NoFailure
                           ELSE IF old = None THEN None ELSE HadRect]
  /\ dirty' = InPaint
  /\ pc' = [pc EXCEPT ![t] = "u530"]
  /\ UNCHANGED <<LockMap, settings, uctx, lifeVars, invalid, paintEnabled,
                 ptodo, contextRects, hdc, drawn, marginFailed, seen,
                 hostRect>>

\* line 530: self.UnLock("update")
U530(t) ==
  /\ pc[t] = "u530"
  /\ LockMap' = "False"
  /\ failOld' = [failOld EXCEPT ![t] = NoFailure]
  /\ Return(t)
  /\ UNCHANGED <<contextToRectMap, settings, lifeVars, invalid, paintVars,
                 lastW, hostRect>>

updateContextRect(t) == U518(t) \/ U520(t) \/ U521(t) \/ U526(t) \/ U530(t)

\* ------------------------------------------------ the host's thread

\* __init__, line 446-449: wait for the running event, then require a live thread
Constructor ==
  /\ pc["main"] = "c446"
  /\ pc' = [pc EXCEPT !["main"] =
               IF runningEvent /\ pc["render"] # "dead" THEN "idle" ELSE "failed"]
  /\ UNCHANGED <<contextToRectMap, LockMap, settings, uctx, lifeVars, invalid,
                 paintVars, lastW, hostRect, failOld>>

\* the host calls a registered callback: each starts with updateContextRect
HostCallback(c) ==
  /\ pc["main"] = "idle"
  /\ pc' = [pc EXCEPT !["main"] = "u518"]
  /\ uctx' = [uctx EXCEPT !["main"] = c]
  /\ UNCHANGED <<contextToRectMap, LockMap, settings, lifeVars, invalid,
                 paintVars, lastW, hostRect, failOld>>

handleFocusChange == HostCallback(FOCUS)
handleReviewMove == HostCallback(NAVIGATOR)
handleBrowseModeMove == HostCallback(BROWSEMODE)

\* a pop that leaves the entry where it is
Pop_Keep(map, c) == map

\* self.contextToRectMap.pop(context, None) (line 535)
Pop(map, c) == [map EXCEPT ![c] = None]

\* handleFocusChange, line 534-535: obj is outside the active tree interceptor
H535 ==
  /\ pc["main"] = "h534"
  /\ contextToRectMap' = Pop(contextToRectMap, BROWSEMODE)
  /\ lastW' = [lastW EXCEPT ![BROWSEMODE] = None]
  /\ dirty' = InPaint
  /\ pc' = [pc EXCEPT !["main"] = "h535done"]
  /\ UNCHANGED <<LockMap, settings, uctx, lifeVars, invalid, paintEnabled,
                 ptodo, contextRects, hdc, drawn, marginFailed, seen,
                 hostRect, failOld>>

\* handleFocusChange returns to the host after line 535
H535Return ==
  /\ pc["main"] = "h535done"
  /\ pc' = [pc EXCEPT !["main"] = "idle"]
  /\ UNCHANGED <<contextToRectMap, LockMap, settings, uctx, lifeVars, invalid,
                 paintVars, lastW, hostRect, failOld>>

\* handleFocusChange, line 536-537: obj is inside it: handleBrowseModeMove()
H537 ==
  /\ pc["main"] = "h534"
  /\ pc' = [pc EXCEPT !["main"] = "u518"]
  /\ uctx' = [uctx EXCEPT !["main"] = BROWSEMODE]
  /\ UNCHANGED <<contextToRectMap, LockMap, settings, lifeVars, invalid,
                 paintVars, lastW, hostRect, failOld>>

\* the settings panel switches one highlightPlus<Context> setting
SetSetting(c) ==
  /\ pc["main"] = "idle"
  /\ settings' = IF c \in settings THEN settings \ {c} ELSE settings \cup {c}
  /\ UNCHANGED <<contextToRectMap, LockMap, pc, uctx, lifeVars, invalid,
                 paintVars, lastW, hostRect, failOld>>

\* NVDAhighlighterPlus.refresh, line 545-549, and HighlightWindow.refresh
refresh ==
  /\ pc["main"] = "idle"
  /\ window
  /\ ~invalid
  /\ invalid' = TRUE
  /\ UNCHANGED <<contextToRectMap, LockMap, settings, pc, uctx, lifeVars,
                 paintVars, lastW, hostRect, failOld>>

\* terminate, line 453-456: with a thread object and a window handle, post
\* WM_QUIT to the render thread.  Posting to a thread that has ended fails and
\* terminate raises WinError (line 455-456).  Without them go to line 459.
\* The host may call terminate again after a terminate that returned.
T454 ==
  /\ pc["main"] \in {"idle", "terminated"}
  /\ 1 - gdiplus < MaxTerminates
  /\ IF thread /\ window
       THEN IF pc["render"] # "dead"
              THEN /\ quitPosted' = TRUE
                   /\ pc' = [pc EXCEPT !["main"] = "t457"]
              ELSE /\ pc' = [pc EXCEPT !["main"] = "raised"]
                   /\ UNCHANGED quitPosted
       ELSE /\ pc' = [pc EXCEPT !["main"] = "t459"]
            /\ UNCHANGED quitPosted
  /\ UNCHANGED <<contextToRectMap, LockMap, settings, uctx, thread, displays,
                 location, window, timer, runningEvent, gdiplus, invalid,
                 paintVars, lastW, hostRect, failOld>>

\* terminate, line 457-458: join the render thread, then forget it
T457 ==
  /\ pc["main"] = "t457"
  /\ pc["render"] = "dead"
  /\ thread' = FALSE
  /\ pc' = [pc EXCEPT !["main"] = "t459"]
  /\ UNCHANGED <<contextToRectMap, LockMap, settings, uctx, displays,
                 location, window, timer, runningEvent, gdiplus, quitPosted,
                 invalid, paintVars, lastW, hostRect, failOld>>

\* terminate, line 459-461: gdiPlusTerminate, clear the registry, unregister
T459 ==
  /\ pc["main"] = "t459"
  /\ gdiplus' = gdiplus - 1
  /\ contextToRectMap' = EmptyMap
  /\ lastW' = EmptyMap
  /\ dirty' = InPaint
  /\ pc' = [pc EXCEPT !["main"] = "terminated"]
  /\ UNCHANGED <<LockMap, settings, uctx, thread, displays, location, window,
                 timer, runningEvent, quitPosted, invalid, paintEnabled,
                 ptodo, contextRects, hdc, drawn, marginFailed, seen,
                 hostRect, failOld>>

terminate == T454 \/ T457 \/ T459

\* ------------------------------------------------- the render thread

\* _run, line 468: construct the window.  HighlightWindow.__init__ ends with
\* UpdateWindow (line 136), which sends WM_PAINT at once when the new window
\* has an update region: that _paint finds the registry empty, so all it does
\* is Lock and UnLock, and the region stays (no BeginPaint).  Without an update
\* region no _paint runs.  A failing constructor raises and ends _run (line 484).
R468 ==
  /\ pc["render"] = "r468"
  /\ \/ /\ window' = TRUE
        /\ location' = WindowLocation(displays)
        /\ \/ LockMap' = "False" /\ invalid' = TRUE
           \/ UNCHANGED <<LockMap, invalid>>
        /\ pc' = [pc EXCEPT !["render"] = "r469"]
     \/ /\ pc' = [pc EXCEPT !["render"] = "dead"]
        /\ UNCHANGED <<window, location, LockMap, invalid>>
  /\ UNCHANGED <<contextToRectMap, settings, uctx, thread, displays, timer,
                 runningEvent, gdiplus, quitPosted, paintVars, lastW,
                 hostRect, failOld>>

\* _run, line 469-470: start the timer, set the running event
R469 ==
  /\ pc["render"] = "r469"
  /\ timer' = TRUE
  /\ runningEvent' = TRUE
  /\ pc' = [pc EXCEPT !["render"] = "r472"]
  /\ UNCHANGED <<contextToRectMap, LockMap, settings, uctx, thread, displays,
                 location, window, gdiplus, quitPosted, invalid, paintVars,
                 lastW, hostRect, failOld>>

\* _run, line 472-474 with windowProc, line 151-152: WM_TIMER: refresh(), which
\* invalidates the window; then main() (line 475)
WmTimer ==
  /\ pc["render"] = "r472"
  /\ ~quitPosted
  /\ timer
  /\ invalid' = TRUE
  /\ pc' = [pc EXCEPT !["render"] = "u518"]
  /\ uctx' = [uctx EXCEPT !["render"] = NAVIGATOR]
  /\ UNCHANGED <<contextToRectMap, LockMap, settings, lifeVars, paintVars,
                 lastW, hostRect, failOld>>

\* _run, line 472-474 with windowProc, line 140-141: WM_PAINT: _paint()
WmPaint ==
  /\ pc["render"] = "r472"
  /\ ~quitPosted
  /\ invalid
  /\ pc' = [pc EXCEPT !["render"] = "p163"]
  /\ UNCHANGED <<contextToRectMap, LockMap, settings, uctx, lifeVars, invalid,
                 paintVars, lastW, hostRect, failOld>>

\* _run, line 472 and 480-483: WM_QUIT ends the loop; the timer is terminated
\* and the window destroyed
WmQuit ==
  /\ pc["render"] = "r472"
  /\ quitPosted
  /\ quitPosted' = FALSE
  /\ timer' = FALSE
  /\ window' = FALSE
  /\ invalid' = FALSE
  /\ pc' = [pc EXCEPT !["render"] = "dead"]
  /\ UNCHANGED <<contextToRectMap, LockMap, settings, uctx, thread, displays,
                 location, runningEvent, gdiplus, paintVars, lastW, hostRect,
                 failOld>>

\* _run, line 472 and 476-479: GetMessageW returns -1: WinError is raised inside
\* the try block, so line 482-483 are skipped and line 484-485 log it
GetMessageFails ==
  /\ pc["render"] = "r472"
  /\ pc' = [pc EXCEPT !["render"] = "dead"]
  /\ UNCHANGED <<contextToRectMap, LockMap, settings, uctx, lifeVars, invalid,
                 paintVars, lastW, hostRect, failOld>>

\* what _paint leaves behind when it returns: its locals are gone
EndPaint ==
  /\ paintEnabled' = {}
  /\ ptodo' = <<>>
  /\ contextRects' = EmptyRects
  /\ hdc' = FALSE
  /\ drawn' = {}
  /\ marginFailed' = {}
  /\ seen' = NothingSeen
  /\ dirty' = FALSE
  /\ pc' = [pc EXCEPT !["render"] = "u518"]
  /\ uctx' = [uctx EXCEPT !["render"] = NAVIGATOR]

\* _paint, line 163-164: highlighterPlus.Lock("paint"); contextRects = {}
P163 ==
  /\ pc["render"] = "p163"
  /\ LockMap' = "True"
  /\ pc' = [pc EXCEPT !["render"] = "p165"]
  /\ UNCHANGED <<contextToRectMap, settings, uctx, lifeVars, invalid,
                 paintVars, lastW, hostRect, failOld>>

\* _paint, line 165: evaluate highlighterPlus.enabledContexts for the loop
P165 ==
  /\ pc["render"] = "p165"
  /\ ptodo' = enabledContexts
  /\ paintEnabled' = settings
  /\ pc' = [pc EXCEPT !["render"] = IF ptodo' = <<>> THEN "p178" ELSE "p166"]
  /\ UNCHANGED <<contextToRectMap, LockMap, settings, uctx, lifeVars, invalid,
                 contextRects, hdc, drawn, marginFailed, seen, lastW,
                 hostRect, failOld, dirty>>

\* _paint, line 166-177: one pass of the loop: read the entry, file it
P166 ==
  /\ pc["render"] = "p166"
  /\ LET context == Head(ptodo)
         rect == contextToRectMap[context]
     IN /\ contextRects' = PaintVisit(contextRects, context, rect)
        /\ seen' = [seen EXCEPT ![context] = rect]
  /\ ptodo' = Tail(ptodo)
  /\ pc' = [pc EXCEPT !["render"] = IF ptodo' = <<>> THEN "p178" ELSE "p166"]
  /\ UNCHANGED <<contextToRectMap, LockMap, settings, uctx, lifeVars, invalid,
                 paintEnabled, hdc, drawn, marginFailed, lastW, hostRect,
                 failOld, dirty>>

\* _paint, line 178-182: nothing to draw: UnLock and return; otherwise enter
\* winUser.paint (BeginPaint validates the window) and the graphics context
P178 ==
  /\ pc["render"] = "p178"
  /\ IF NoInstructions(contextRects)
       THEN /\ LockMap' = "False"
            /\ EndPaint
            /\ UNCHANGED invalid
       ELSE /\ hdc' = TRUE
            /\ invalid' = FALSE
            /\ pc' = [pc EXCEPT !["render"] = "p183"]
            /\ UNCHANGED <<LockMap, uctx, paintEnabled, ptodo, contextRects,
                           drawn, marginFailed, seen, dirty>>
  /\ UNCHANGED <<contextToRectMap, settings, lifeVars, lastW, hostRect,
                 failOld>>

\* _paint, line 183-202: draw one instruction with the style of its context;
\* the rectangle recorded is the one after the clipping of line 187.
\* rect.expandOrShrink(margin) may raise RuntimeError (line 193-196): the
\* handler is "pass", rect keeps its value and line 197-202 stroke it.
P183 ==
  /\ pc["render"] = "p183"
  /\ LET context == Head(ToDraw)
         rect == Intersection(contextRects[context], location)
     IN /\ drawn' = drawn \cup {[context |-> context,
                                 rect |-> rect,
                                 style |-> ContextStyles(context)]}
        /\ \E raised \in MarginOutcomes(rect) :
             marginFailed' = AfterMargin(marginFailed, context, raised)
  /\ pc' = [pc EXCEPT !["render"] = IF Len(ToDraw) = 1 THEN "p203" ELSE "p183"]
  /\ UNCHANGED <<contextToRectMap, LockMap, settings, uctx, lifeVars, invalid,
                 paintEnabled, ptodo, contextRects, hdc, seen, lastW,
                 hostRect, failOld, dirty>>

\* _paint, line 203: leave both "with" blocks; highlighterPlus.UnLock("paint")
P203 ==
  /\ pc["render"] = "p203"
  /\ LockMap' = "False"
  /\ EndPaint
  /\ UNCHANGED <<contextToRectMap, settings, lifeVars, invalid, lastW,
                 hostRect, failOld>>

\* _paint, line 182-202: an error that no handler of _paint catches (the
\* graphics context, toClient, the pen, the stroke) leaves _paint through both
\* "with" blocks, which end the paint; line 203 is not reached.  It is raised inside
\* the window procedure, so the message loop goes on with main() (line 475).
PaintRaises ==
  /\ pc["render"] = "p183"
  /\ EndPaint
  /\ UNCHANGED <<contextToRectMap, LockMap, settings, lifeVars, invalid, lastW,
                 hostRect, failOld>>

paint == P163 \/ P165 \/ P166 \/ P178 \/ P183 \/ P203 \/ PaintRaises

run == R468 \/ R469 \/ WmTimer \/ WmPaint \/ WmQuit \/ GetMessageFails

\* ---------------------------------------------------------- specification

Next ==
  \/ Constructor
  \/ handleFocusChange
  \/ handleReviewMove
  \/ handleBrowseModeMove
  \/ H535
  \/ H535Return
  \/ H537
  \/ \E c \in SupportedSet : SetSetting(c)
  \/ refresh
  \/ terminate
  \/ run
  \/ paint
  \/ \E t \in Threads : updateContextRect(t)

Spec == Init /\ [][Next]_vars

\* Both threads keep being scheduled: the render thread's loop goes on (the
\* timer keeps ticking) and a call the host has started runs to its end.  The
\* host is not obliged to raise further events.
RenderThread == run \/ paint \/ updateContextRect("render")
HostCallInProgress ==
  updateContextRect("main") \/ H535 \/ H535Return \/ H537 \/ T457 \/ T459

FairSpec == Spec /\ WF_vars(RenderThread) /\ WF_vars(HostCallInProgress)

\* ------------------------------------- the running engine, host at rest

\* the window was shown and painted once, the timer runs, the constructor has
\* returned, the host is idle, the message loop waits for a message
EngineUp ==
  /\ LockMap = "False"
  /\ pc = [t \in Threads |-> IF t = "main" THEN "idle" ELSE "r472"]
  /\ uctx = [t \in Threads |-> ""]
  /\ thread = TRUE
  /\ location = WindowLocation(displays)
  /\ window = TRUE
  /\ timer = TRUE
  /\ runningEvent = TRUE
  /\ gdiplus = 1
  /\ quitPosted = FALSE
  /\ invalid = TRUE
  /\ paintEnabled = {}
  /\ ptodo = <<>>
  /\ contextRects = EmptyRects
  /\ hdc = FALSE
  /\ drawn = {}
  /\ marginFailed = {}
  /\ seen = NothingSeen
  /\ lastW = contextToRectMap
  /\ dirty = FALSE
  /\ failOld = [t \in Threads |-> NoFailure]

\* The engine is up and the host's objects have come to rest: from now on
\* getContextRect returns the same rectangle per context and the host raises
\* no event.  The registry holds what earlier events left in it.
ResyncInit ==
  /\ contextToRectMap \in [SupportedSet -> RectOrNone]
  /\ settings \in SUBSET SupportedSet
  /\ hostRect \in [SupportedSet -> Rects]
  /\ displays = OneDisplay
  /\ EngineUp

\* the message loop with its timer
ResyncNext ==
  \/ WmTimer
  \/ WmPaint
  \/ paint
  \/ updateContextRect("render")

\* The timer keeps ticking and the loop keeps retrieving WM_TIMER (and paints
\* when the window is invalid); the render thread is scheduled.
ResyncSpec ==
  /\ ResyncInit
  /\ [][ResyncNext]_vars
  /\ SF_vars(WmTimer)
  /\ SF_vars(WmPaint)
  /\ WF_vars(paint \/ updateContextRect("render"))

\* ------------------------------- the running engine, display layouts

\* a display of 1920 x 1080 pixels
FullHD == [x |-> 0, y |-> 0, w |-> 1920, h |-> 1080]

\* bounding boxes of display layouts; the primary display has its origin at
\* (0, 0), so every bounding box holds that point
DisplayBoxes ==
  {[x |-> 0, y |-> 0, w |-> 8, h |-> 6], [x |-> -4, y |-> 0, w |-> 12, h |-> 6],
   FullHD}

\* rectangles (left, top, right, bottom) inside, across and outside the edges
\* of these layouts
ClipRects ==
  {<<2, 2, 5, 4>>, <<6, 4, 10, 9>>, <<-6, 1, -1, 3>>, <<1900, 1070, 2000, 1120>>}

\* windowProc, line 153-155, and updateLocationForDisplays, line 97-118: after
\* a display change the host's thread reads the new layout, sets the location
\* and hides, moves and shows the window
updateLocationForDisplays ==
  /\ pc["main"] = "idle"
  /\ window
  /\ \E d \in DisplayBoxes \ {displays} :
       /\ displays' = d
       /\ location' = WindowLocation(d)
  /\ invalid' = TRUE
  /\ UNCHANGED <<contextToRectMap, LockMap, settings, pc, uctx, thread,
                 window, timer, runningEvent, gdiplus, quitPosted, paintVars,
                 lastW, hostRect, failOld>>

\* the engine is up under some display layout, the host's objects are at rest
\* and the registry holds their rectangles or nothing
ClipInit ==
  /\ hostRect \in [SupportedSet -> ClipRects]
  /\ contextToRectMap \in [SupportedSet -> ClipRects \cup {None}]
  /\ \A c \in SupportedSet : contextToRectMap[c] \in {None, hostRect[c]}
  /\ settings = SupportedSet
  /\ displays \in DisplayBoxes
  /\ EngineUp

\* the message loop with its timer, and display changes
ClipNext == ResyncNext \/ updateLocationForDisplays

ClipSpec == ClipInit /\ [][ClipNext]_vars

\* ------------------------------------------------------------- properties

\* between Lock("paint") and UnLock("paint")
InPaintSection == pc["render"] \in {"p165", "p166", "p178", "p183", "p203"}

\* between Lock("update") and UnLock("update")
InUpdateSection(t) == pc[t] \in {"u521", "u526", "u530"}

\* C1: no two threads are inside a registry critical section at the same time:
\* an updateContextRect between its Lock and UnLock excludes a _paint between
\* its Lock and UnLock and every other updateContextRect between its own.
C1_MutualExclusion ==
  /\ ~(InUpdateSection("main") /\ InPaintSection)
  /\ ~(InUpdateSection("main") /\ InUpdateSection("render"))

\* a host callback's updateContextRect call for an enabled context has arrived
Arrived(c) == pc["main"] = "u518" /\ uctx["main"] = c /\ c \in settings

\* the entry of c has just been written (line 529)
Written(c) == \E t \in Threads : pc[t] = "u530" /\ uctx[t] = c

\* the call returns at line 519 because the flag was set when it arrived
Discarded(c) == Arrived(c) /\ LockMap = "True" /\ pc'["main"] # "u518"

\* C2: every updateContextRect call of a host callback for an enabled context
\* leads to a write of that context's entry, by that call or a later one, and
\* no such call is discarded because the lock was held when it arrived.
C2_NoDroppedUpdate ==
  /\ \A c \in SupportedSet : Arrived(c) ~> Written(c)
  /\ [][\A c \in SupportedSet : ~Discarded(c)]_vars

\* a _paint has made its first registry read and has not made its last
BetweenReads == pc["render"] = "p166" /\ ReadSoFar # {}

\* C3: the rectangles one _paint uses are the registry's contents at a single
\* instant: no write or removal takes effect between the paint's first and
\* last registry read.
C3_SnapshotAtOneInstant ==
  [][BetweenReads => contextToRectMap' = contextToRectMap]_vars

\* C4: while the lock is held its holder only reads or replaces registry
\* entries: it is not held while _paint is inside its paint context (drawing)
\* nor while updateContextRect is inside getContextRect.
C4_LockOnlyAroundRegistry ==
  LockMap = "True" => ~hdc /\ \A t \in Threads : pc[t] # "u526"

\* the rectangle a paint uses for a supported context: its own entry, or the
\* merged entry that replaced it
UsedFor(cr, c) ==
  IF c \in {FOCUS, NAVIGATOR} /\ cr[FOCUS_NAVIGATOR] # None
    THEN cr[FOCUS_NAVIGATOR]
    ELSE cr[c]

\* C5: the value a _paint uses for a context is the last one committed for it
\* when the paint reads it: a paint that starts after a write was committed
\* uses that value or one committed later, never an older one.
C5_PaintUsesLastCommitted ==
  [][\A c \in SupportedSet :
       (pc["render"] = "p166" /\ ptodo' # ptodo /\ Head(ptodo) = c)
         => UsedFor(contextRects', c) = lastW[c]]_vars

\* a paint read a BrowseMode rectangle (only host callbacks write one) and
\* nothing was committed since the paint was entered
C5_Witness ==
  /\ pc["render"] = "p178"
  /\ ~dirty
  /\ seen[BROWSEMODE] \in Rects
  /\ contextRects[BROWSEMODE] = seen[BROWSEMODE]

\* the paint has read all its contexts
ReadsDone == pc["render"] \in {"p178", "p183", "p203"}

\* the instructions drawn for Focus, Navigator or the merged context
FocusNavDrawn == {d \in drawn : d.context \in {FOCUS, NAVIGATOR, FOCUS_NAVIGATOR}}

BothEqual ==
  /\ {FOCUS, NAVIGATOR} \subseteq paintEnabled
  /\ seen[FOCUS] \in Rects
  /\ seen[NAVIGATOR] = seen[FOCUS]

\* C6: when Focus and Navigator are enabled and the paint read equal rectangles
\* for them, the instructions hold one FocusNavigator entry with that
\* rectangle and no Focus or Navigator entry, and it is drawn SOLID_BLUE.
C6_EqualRectsMerge ==
  (ReadsDone /\ BothEqual) =>
    /\ contextRects[FOCUS_NAVIGATOR] = seen[FOCUS]
    /\ contextRects[FOCUS] = None
    /\ contextRects[NAVIGATOR] = None
    /\ pc["render"] = "p203" =>
         FocusNavDrawn = {[context |-> FOCUS_NAVIGATOR, rect |-> seen[FOCUS],
                           style |-> SOLID_BLUE]}

C6_Witness == pc["render"] = "p203" /\ BothEqual

BothDiffer ==
  /\ {FOCUS, NAVIGATOR} \subseteq paintEnabled
  /\ seen[FOCUS] \in Rects
  /\ seen[NAVIGATOR] \in Rects
  /\ seen[NAVIGATOR] # seen[FOCUS]

\* C7: when Focus and Navigator are enabled and the paint read rectangles that
\* differ, the instructions hold a Focus entry and a Navigator entry, each with
\* its own rectangle, and no FocusNavigator entry.
C7_DifferentRectsStaySeparate ==
  (ReadsDone /\ BothDiffer) =>
    /\ contextRects[FOCUS] = seen[FOCUS]
    /\ contextRects[NAVIGATOR] = seen[NAVIGATOR]
    /\ contextRects[FOCUS_NAVIGATOR] = None
    /\ pc["render"] = "p203" =>
         {<<d.context, d.rect>> : d \in FocusNavDrawn}
           = {<<FOCUS, seen[FOCUS]>>, <<NAVIGATOR, seen[NAVIGATOR]>>}

C7_Witness == pc["render"] = "p203" /\ BothDiffer

\* C8: a context whose setting was off when the paint evaluated
\* enabledContexts has no instruction and is not drawn, whatever the registry
\* holds for it; a merged instruction needs Focus and Navigator both enabled.
C8_DisabledNotDrawn ==
  pc["render"] \in {"p166", "p178", "p183", "p203"} =>
    /\ \A c \in SupportedSet \ paintEnabled :
         contextRects[c] = None /\ c \notin DrawnContexts
    /\ (contextRects[FOCUS_NAVIGATOR] # None \/ FOCUS_NAVIGATOR \in DrawnContexts)
         => {FOCUS, NAVIGATOR} \subseteq paintEnabled

\* a paint has drawn while Focus was disabled and the registry held the same
\* rectangle for Focus and for the enabled Navigator
C8_Witness ==
  /\ pc["render"] = "p203"
  /\ FOCUS \notin paintEnabled
  /\ NAVIGATOR \in paintEnabled
  /\ contextToRectMap[FOCUS] \in Rects
  /\ seen[NAVIGATOR] = contextToRectMap[FOCUS]

\* C9: updateContextRect for a context whose setting is off changes no entry:
\* none of its steps up to the check of line 521 writes, and the check returns.
C9_DisabledUpdateIsNoOp ==
  [][\A t \in Threads :
       (/\ pc[t] \in {"u518", "u520", "u521"}
        /\ uctx[t] \notin settings
        /\ <<pc[t], uctx[t]>>' # <<pc[t], uctx[t]>>)
         => /\ contextToRectMap' = contextToRectMap
            /\ pc'[t] # "u526"]_vars

\* handleFocusChange is back from updateContextRect(FOCUS) with Focus disabled
\* and the registry still holds a Focus rectangle
C9_Witness ==
  /\ pc["main"] = "h534"
  /\ FOCUS \notin settings
  /\ contextToRectMap[FOCUS] \in Rects

\* C10: a paint with no instruction holds no paint context or graphics context
\* and has drawn nothing.
C10_EmptyPaintAcquiresNothing ==
  (\A c \in AllContexts : contextRects[c] = None) => ~hdc /\ drawn = {}

\* a paint over enabled contexts has finished its reads and found no rectangle
C10_Witness ==
  /\ pc["render"] = "p178"
  /\ paintEnabled # {}
  /\ \A c \in AllContexts : contextRects[c] = None
  /\ ~hdc

\* C11: once the constructor has raised because the render thread was not
\* ready in time or had died, nothing of the failed start is live: there is no
\* overlay window and no timer, then or later, and GDI+ has been released.
C11_FailedStartLeavesNothing ==
  pc["main"] = "failed" => ~window /\ ~timer /\ gdiplus = 0

\* terminate() has posted WM_QUIT to a running render thread, joined it and
\* returned
TerminateReturned == pc["main"] = "terminated" /\ ~thread

\* C12: once terminate() has returned normally on a running engine, the render
\* thread has exited, the timer is cancelled, the window is destroyed, and the
\* registry is empty and is not written again.
C12_TerminateStopsEverything ==
  /\ [](TerminateReturned =>
          /\ pc["render"] = "dead"
          /\ ~timer
          /\ ~window
          /\ contextToRectMap = EmptyMap)
  /\ [][TerminateReturned => contextToRectMap' = contextToRectMap]_vars

\* C13: terminate() called after the render thread has ended on its own does
\* not try to post WM_QUIT to the dead thread and does not raise: it never ends
\* in the WinError of line 455-456, which would leave GDI+ and the registry as
\* they were.
C13_TerminateAfterThreadDeath ==
  pc["main"] # "raised"

\* a terminate() has run to its end
TerminateCompleted == gdiplus <= 0

\* C14: a terminate() after a completed terminate() is a no-op: it neither
\* posts WM_QUIT and joins nor raises, and it does not release GDI+ again, so
\* GDI+ is never released more often than it was initialised.
C14_SecondTerminateIsNoOp ==
  /\ TerminateCompleted => pc["main"] \notin {"t457", "raised"}
  /\ gdiplus >= 0

\* the render thread has left the message loop it had entered
LoopEnded == pc["render"] = "dead" /\ runningEvent

\* C15: the render thread's loop ends only where GetMessageW is called (WM_QUIT,
\* or a failure to retrieve a message), never inside the handling of a message
\* (_paint, or main and the updateContextRect calls it makes); and when it has
\* ended the timer is cancelled and the window destroyed.
C15_ErrorsDoNotEndLoop ==
  /\ [][(pc["render"] # "dead" /\ pc'["render"] = "dead")
          => pc["render"] \in {"r468", "r472"}]_vars
  /\ [](LoopEnded => ~timer /\ ~window)

\* C16: once the host's rectangle for an enabled context has come to rest, the
\* timer-driven re-poll eventually stores it in the registry and a paint then
\* reads it, for Focus, Navigator and BrowseMode alike, also when no host
\* event delivers it.
C16_ResyncEventually ==
  \A c \in SupportedSet : \A r \in Rects :
    /\ (hostRect[c] = r /\ c \in settings) ~> (contextToRectMap[c] = r)
    /\ (hostRect[c] = r /\ c \in settings) ~> (ReadsDone /\ seen[c] = r)

\* C17: an instruction whose margin transform (expandOrShrink) failed is not
\* drawn in that paint, and every other instruction of the paint is drawn.
C17_FailedMarginSkipsInstruction ==
  /\ \A c \in marginFailed : c \notin DrawnContexts
  /\ pc["render"] = "p203" =>
       \A c \in AllContexts :
         (contextRects[c] # None /\ c \notin marginFailed) => c \in DrawnContexts

ReducedBox == <<displays.x, displays.y, displays.x + displays.w,
                displays.y + displays.h - 1>>

Inside(r, box) ==
  r[1] >= box[1] /\ r[2] >= box[2] /\ r[3] <= box[3] /\ r[4] <= box[4]

\* the instruction a draw step is about to clip and stroke
Drawing(r) == pc["render"] = "p183" /\ contextRects[Head(ToDraw)] = r

\* C19: the window location is the bounding box of the displays with its
\* height reduced by one, and every rectangle lies inside it after the clipping
\* of _paint; with displays of 1920 x 1080, location (0, 0, 1920, 1079), the
\* rectangle (1900, 1070, 100, 50) is clipped to within (1900, 1070, 20, 9),
\* that is to left 1900, top 1070, right 1920, bottom 1079.
C19_ClippedInsideLocation ==
  /\ [](location = <<displays.x, displays.y, displays.w, displays.h - 1>>)
  /\ [][pc["render"] = "p183" =>
          \A d \in drawn' \ drawn : Inside(d.rect, ReducedBox)]_vars
  /\ [][(displays = FullHD /\ Drawing(<<1900, 1070, 2000, 1120>>)) =>
          \A d \in drawn' \ drawn :
            Inside(d.rect, <<1900, 1070, 1920, 1079>>)]_vars

\* the rectangle (1900, 1070, 100, 50) was drawn on the 1920 x 1080 display,
\* cut down to (1900, 1070, 20, 9)
C19_Witness ==
  /\ displays = FullHD
  /\ \E d \in drawn : d.rect = <<1900, 1070, 1920, 1079>>

\* C20: when handleFocusChange has run its branch for an object outside the
\* active browse-mode scope, the registry holds no BrowseMode rectangle,
\* whatever became of the Focus update of the same call; and an absent
\* BrowseMode entry gets a rectangle only by the write of a BrowseMode update.
C20_FocusOutsideClearsBrowseMode ==
  /\ [](pc["main"] = "h535done" => contextToRectMap[BROWSEMODE] = None)
  /\ [][(contextToRectMap[BROWSEMODE] = None
           /\ contextToRectMap'[BROWSEMODE] # None)
          => \E t \in Threads :
               pc[t] = "u526" /\ uctx[t] = BROWSEMODE /\ pc'[t] = "u530"]_vars

\* handleFocusChange has removed the BrowseMode entry in a call whose Focus
\* update left no Focus rectangle, while the flag was set by the other thread
C20_Witness ==
  /\ pc["main"] = "h535done"
  /\ contextToRectMap[BROWSEMODE] = None
  /\ contextToRectMap[FOCUS] = None
  /\ LockMap = "True"

\* C21: whenever the lock flag is set it is eventually cleared, and every
\* finish of a _paint or an updateContextRect that had set it (the empty
\* snapshot return, the disabled-context return, a failed region resolution,
\* a failed drawing) leaves the flag cleared.
C21_LockEventuallyCleared ==
  /\ (LockMap = "True") ~> (LockMap = "False")
  /\ [][(InPaintSection /\ ~InPaintSection') => LockMap' = "False"]_vars
  /\ [][\A t \in Threads :
          (InUpdateSection(t) /\ ~InUpdateSection(t)') => LockMap' = "False"]_vars

\* C22: the lock flag has a value whenever it is read: no thread is about to
\* evaluate IsLocked() at line 518 of updateContextRect, in a host callback or
\* in the render thread's main(), while no Lock or UnLock has assigned LockMap.
C22_FlagDefinedWhenRead ==
  \A t \in Threads : pc[t] = "u518" => LockMap # "unset"

====
